---- MODULE Spec2Model ----
(***************************************************************************)
(* Exact inference over a family pedigree (heredity.py).                   *)
(*                                                                         *)
(* Persons are numbered 1..k in the order the mapping `people` holds them; *)
(* 0 stands for Python's None in a mother/father field, and a number       *)
(* outside 1..k for a name that is no key of the mapping.                  *)
(*                                                                         *)
(* Probabilities are Python floats in the program.  They are modelled as   *)
(* exact rationals: every table entry of PROBS is held in hundredths, a    *)
(* joint probability is the exact integer product of the per-person        *)
(* factors (unit 10^-4 per person without father, 10^-6 per person with    *)
(* one), and an accumulated weight is a fraction num/den of such integers. *)
(* Integers are arbitrary-precision naturals (little-endian limb           *)
(* sequences), since the products exceed 32 bits.  Rounding of the         *)
(* floating-point operations is not modelled.                              *)
(***************************************************************************)
EXTENDS Integers, Sequences, FiniteSets, TLC

(***************************************************************************)
(* Bounds of the model.                                                    *)
(***************************************************************************)
\* largest number of persons in a pedigree of the main pipeline
MaxPeople == 3
\* largest number of persons in an unvalidated input mapping
MaxRawPeople == 2
\* largest number of worlds folded in arbitrary order
MaxWorlds == 6
\* largest number of persons handed to normalize with arbitrary weights
MaxNormalizePeople == 2

(***************************************************************************)
(* Arbitrary-precision naturals: <<>> is 0, limb i weighs Base^(i-1), the  *)
(* highest limb is never 0, so equal numbers are equal sequences.          *)
(***************************************************************************)
Base == 10 ^ 3

RECURSIVE ToBig(_)
ToBig(n) == IF n = 0 THEN <<>> ELSE <<n % Base>> \o ToBig(n \div Base)

RECURSIVE BigAddC(_, _, _)
BigAddC(a, b, c) ==
    IF a = <<>> /\ b = <<>>
    THEN ToBig(c)
    ELSE LET x == IF a = <<>> THEN 0 ELSE Head(a)
             y == IF b = <<>> THEN 0 ELSE Head(b)
             s == x + y + c
             r == BigAddC(IF a = <<>> THEN <<>> ELSE Tail(a),
                          IF b = <<>> THEN <<>> ELSE Tail(b), s \div Base)
         IN  IF s % Base = 0 /\ r = <<>> THEN <<>> ELSE <<s % Base>> \o r

BigAdd(a, b) == BigAddC(a, b, 0)

RECURSIVE BigMulSmallC(_, _, _)
BigMulSmallC(a, k, c) ==
    IF a = <<>>
    THEN ToBig(c)
    ELSE LET s == Head(a) * k + c
             r == BigMulSmallC(Tail(a), k, s \div Base)
         IN  IF s % Base = 0 /\ r = <<>> THEN <<>> ELSE <<s % Base>> \o r

\* a * k for a small natural k (k < 10^6)
BigMulSmall(a, k) == IF k = 0 THEN <<>> ELSE BigMulSmallC(a, k, 0)

RECURSIVE BigMul(_, _)
BigMul(a, b) ==
    IF a = <<>> \/ b = <<>>
    THEN <<>>
    ELSE LET r == BigMul(a, Tail(b))
         IN  BigAdd(BigMulSmall(a, Head(b)), IF r = <<>> THEN <<>> ELSE <<0>> \o r)

BigZero == <<>>
BigOne == <<1>>

(***************************************************************************)
(* Rationals num/den with den # 0.  The weights start as the integer 0,    *)
(* grow by += p in update and are divided by /= total in normalize.        *)
(***************************************************************************)
Rat(n) == [num |-> n, den |-> BigOne]
RatZero == Rat(BigZero)

\* x + y
RatAdd(x, y) ==
    IF x.den = y.den
    THEN [num |-> BigAdd(x.num, y.num), den |-> x.den]
    ELSE [num |-> BigAdd(BigMul(x.num, y.den), BigMul(y.num, x.den)),
          den |-> BigMul(x.den, y.den)]

\* x = y as rationals
RatEq(x, y) == BigMul(x.num, y.den) = BigMul(y.num, x.den)

\* x * y = u * v as rationals
RatProdEq(x, y, u, v) ==
    BigMul(BigMul(x.num, y.num), BigMul(u.den, v.den))
        = BigMul(BigMul(u.num, v.num), BigMul(x.den, y.den))

(***************************************************************************)
(* PROBS, in hundredths.                                                   *)
(***************************************************************************)
PROBS ==
    [gene     |-> [g \in 0..2 |-> CASE g = 2 -> 1 [] g = 1 -> 3 [] g = 0 -> 96],
     trait    |-> [g \in 0..2 |->
                      CASE g = 2 -> [t \in BOOLEAN |-> IF t THEN 65 ELSE 35]
                        [] g = 1 -> [t \in BOOLEAN |-> IF t THEN 56 ELSE 44]
                        [] g = 0 -> [t \in BOOLEAN |-> IF t THEN 1 ELSE 99]],
     mutation |-> 1]

\* 1.0 in hundredths
Hundred == 100


(***************************************************************************)
(* The mapping load_data returns: person -> mother, father, trait.         *)
(***************************************************************************)
None == 0
Traits == {"True", "False", "None"}

\* the both-or-neither-parent rule of load_data's docstring, parents being
\* keys of the mapping
WellFormed(ppl) ==
    \A i \in DOMAIN ppl :
        \/ ppl[i].mother = None /\ ppl[i].father = None
        \/ /\ ppl[i].mother \in DOMAIN ppl
           /\ ppl[i].father \in DOMAIN ppl

\* the records person i of a pedigree can have, the persons being numbered
\* mother before father before child
PersonRecords(i) ==
    { r \in [mother : 0..(i-1), father : 0..(i-1), trait : Traits] :
        \/ r.mother = None /\ r.father = None
        \/ r.mother # None /\ r.father # None /\ r.mother < r.father }

\* the well-formed pedigrees of k persons
RECURSIVE Pedigrees(_)
Pedigrees(k) ==
    IF k = 0 THEN { <<>> }
    ELSE { Append(ppl, r) : ppl \in Pedigrees(k - 1), r \in PersonRecords(k) }

\* input mappings of k persons as a CSV file can hold them: a parent field
\* is blank (None), a key of the mapping, or a name that is no key (k+1)
RawMappings(k) == [1..k -> [mother : 0..(k+1), father : 0..(k+1), trait : Traits]]

(***************************************************************************)
(* powerset(s): list(s), then the r-combinations for r = 0..len(s), each   *)
(* made a set.  list(s) is taken in ascending order.                       *)
(***************************************************************************)
RECURSIVE SetToList(_)
SetToList(s) ==
    IF s = {} THEN <<>>
    ELSE LET m == CHOOSE x \in s : \A y \in s : x <= y
         IN  <<m>> \o SetToList(s \ {m})

Range(l) == { l[i] : i \in DOMAIN l }

\* itertools.combinations(l, r), in the order it yields them
RECURSIVE combinations(_, _)
combinations(l, r) ==
    IF r = 0 THEN << <<>> >>
    ELSE IF Len(l) < r THEN <<>>
    ELSE LET with == combinations(Tail(l), r - 1)
         IN  [i \in 1..Len(with) |-> <<Head(l)>> \o with[i]]
                 \o combinations(Tail(l), r)

\* range(len(s)) for range(len(s) + 1): the combinations of every size but the full one
RECURSIVE chain_short(_, _)
chain_short(l, r) ==
    IF r >= Len(l) /\ r > 0 THEN <<>>
    ELSE combinations(l, r) \o chain_short(l, r + 1)

RECURSIVE chain(_, _)
chain(l, r) ==
    IF r > Len(l) THEN <<>> ELSE combinations(l, r) \o chain(l, r + 1)

powerset(s) ==
    LET l == SetToList(s)
        c == chain(l, 0)
    IN  [i \in 1..Len(c) |-> Range(c[i])]

\* the two gene sets taken for each other
sort_gene_type_swapped(ppl, one_gene, two_genes, have_trait) ==
    [person \in DOMAIN ppl |->
        [have_trait |-> person \in have_trait,
         type       |-> IF person \in one_gene THEN 2
                        ELSE IF person \in two_genes THEN 1
                        ELSE 0]]

(***************************************************************************)
(* sort_gene_type: trait flag and gene copies of every key of `ppl`.       *)
(***************************************************************************)
sort_gene_type(ppl, one_gene, two_genes, have_trait) ==
    [person \in DOMAIN ppl |->
        [have_trait |-> person \in have_trait,
         type       |-> IF person \in one_gene THEN 1
                        ELSE IF person \in two_genes THEN 2
                        ELSE 0]]

(***************************************************************************)
(* joint_probability                                                       *)
(***************************************************************************)
\* 0.49 for 0.50, as the comment in the source has it
prob_on_type_049 == [t \in 0..2 |-> CASE t = 0 -> 1 [] t = 1 -> 49 [] t = 2 -> 99]

prob_on_type == [t \in 0..2 |-> CASE t = 0 -> 1 [] t = 1 -> 50 [] t = 2 -> 99]

\* gene_type[people[person]["father"]] or ["mother"] names no key of gene_type
RaisesKeyError(ppl) ==
    \E person \in DOMAIN ppl :
        /\ ppl[person].father # None
        /\ \/ ppl[person].father \notin DOMAIN ppl
           \/ ppl[person].mother \notin DOMAIN ppl

\* one copy counted from the father only
individual_father_only(ppl, gene_type, person) ==
    IF ppl[person].father = None
    THEN PROBS.gene[gene_type[person].type]
            * PROBS.trait[gene_type[person].type][gene_type[person].have_trait]
    ELSE LET father == prob_on_type[gene_type[ppl[person].father].type]
             mother == prob_on_type[gene_type[ppl[person].mother].type]
             not_father == Hundred - father
             not_mother == Hundred - mother
             g == IF gene_type[person].type = 0
                  THEN not_father * not_mother
                  ELSE IF gene_type[person].type = 1
                  THEN father * not_mother
                  ELSE father * mother
         IN  g * PROBS.trait[gene_type[person].type][gene_type[person].have_trait]

\* probabilities[person]: in 10^-4 without father, in 10^-6 with one
individual(ppl, gene_type, person) ==
    IF ppl[person].father = None
    THEN PROBS.gene[gene_type[person].type]
            * PROBS.trait[gene_type[person].type][gene_type[person].have_trait]
    ELSE LET father == prob_on_type[gene_type[ppl[person].father].type]
             mother == prob_on_type[gene_type[ppl[person].mother].type]
             not_father == Hundred - father
             not_mother == Hundred - mother
             g == IF gene_type[person].type = 0
                  THEN not_father * not_mother
                  ELSE IF gene_type[person].type = 1
                  THEN (father * not_mother) + (not_father * mother)
                  ELSE father * mother
         IN  g * PROBS.trait[gene_type[person].type][gene_type[person].have_trait]

RECURSIVE joint_probs(_, _, _)
joint_probs(ppl, gene_type, n) ==
    IF n = 0 THEN BigOne
    ELSE BigMulSmall(joint_probs(ppl, gene_type, n - 1),
                     individual(ppl, gene_type, n))

joint_probability(ppl, one_gene, two_genes, have_trait) ==
    joint_probs(ppl, sort_gene_type(ppl, one_gene, two_genes, have_trait),
                Cardinality(DOMAIN ppl))

\* the False trait bucket never updated
update_true_only(probs, one_gene, two_genes, have_trait, q) ==
    LET gene_type == sort_gene_type(probs, one_gene, two_genes, have_trait)
    IN  [person \in DOMAIN probs |->
            [gene  |-> [g \in 0..2 |->
                           IF g = gene_type[person].type
                           THEN RatAdd(probs[person].gene[g], Rat(q))
                           ELSE probs[person].gene[g]],
             trait |-> [t \in BOOLEAN |->
                           IF t /\ gene_type[person].have_trait
                           THEN RatAdd(probs[person].trait[t], Rat(q))
                           ELSE probs[person].trait[t]]]]

\* = p for += p
update_assign(probs, one_gene, two_genes, have_trait, q) ==
    LET gene_type == sort_gene_type(probs, one_gene, two_genes, have_trait)
    IN  [person \in DOMAIN probs |->
            [gene  |-> [g \in 0..2 |->
                           IF g = gene_type[person].type
                           THEN Rat(q)
                           ELSE probs[person].gene[g]],
             trait |-> [t \in BOOLEAN |->
                           IF t = gene_type[person].have_trait
                           THEN Rat(q)
                           ELSE probs[person].trait[t]]]]

(***************************************************************************)
(* update                                                                  *)
(***************************************************************************)
update(probs, one_gene, two_genes, have_trait, q) ==
    LET gene_type == sort_gene_type(probs, one_gene, two_genes, have_trait)
    IN  [person \in DOMAIN probs |->
            [gene  |-> [g \in 0..2 |->
                           IF g = gene_type[person].type
                           THEN RatAdd(probs[person].gene[g], Rat(q))
                           ELSE probs[person].gene[g]],
             trait |-> [t \in BOOLEAN |->
                           IF t = gene_type[person].have_trait
                           THEN RatAdd(probs[person].trait[t], Rat(q))
                           ELSE probs[person].trait[t]]]]

(***************************************************************************)
(* normalize: persons in order, in place; a division by a zero total       *)
(* raises ZeroDivisionError and leaves the earlier divisions done.         *)
(***************************************************************************)
gene_total(w) == RatAdd(RatAdd(w.gene[0], w.gene[1]), w.gene[2])
trait_total(w) == RatAdd(w.trait[TRUE], w.trait[FALSE])

\* x /= total, for a rational total # 0
RatDivRat(x, total) ==
    [num |-> BigMul(x.num, total.den), den |-> BigMul(x.den, total.num)]

\* the trait weights left undivided
normalize_genes_only(probs) ==
    [person \in DOMAIN probs |->
        [gene  |-> [g \in 0..2 |->
                       RatDivRat(probs[person].gene[g], gene_total(probs[person]))],
         trait |-> probs[person].trait]]

\* a zero trait total taken for a divisor like any other
RECURSIVE normalized_upto_gene_check(_, _)
normalized_upto_gene_check(probs, n) ==
    IF n = Cardinality(DOMAIN probs) THEN n
    ELSE IF gene_total(probs[n + 1]).num = BigZero
    THEN n
    ELSE normalized_upto_gene_check(probs, n + 1)

\* the last person (0: none) the loop of normalize finishes
RECURSIVE normalized_upto(_, _)
normalized_upto(probs, n) ==
    IF n = Cardinality(DOMAIN probs) THEN n
    ELSE IF \/ gene_total(probs[n + 1]).num = BigZero
            \/ trait_total(probs[n + 1]).num = BigZero
    THEN n
    ELSE normalized_upto(probs, n + 1)

normalize(probs) ==
    LET last == normalized_upto(probs, 0)
    IN  [person \in DOMAIN probs |->
            IF person <= last
            THEN [gene  |-> [g \in 0..2 |->
                               RatDivRat(probs[person].gene[g], gene_total(probs[person]))],
                  trait |-> [t \in BOOLEAN |->
                               RatDivRat(probs[person].trait[t], trait_total(probs[person]))]]
            ELSE IF person = last + 1 /\ gene_total(probs[person]).num # BigZero
            THEN [gene  |-> [g \in 0..2 |->
                               RatDivRat(probs[person].gene[g], gene_total(probs[person]))],
                  trait |-> probs[person].trait]
            ELSE probs[person]]

normalize_raises(probs) == normalized_upto(probs, 0) < Cardinality(DOMAIN probs)

(***************************************************************************)
(* State of main.                                                          *)
(***************************************************************************)
VARIABLES
    people,         \* the mapping load_data returned
    probabilities,  \* person -> gene -> weight, person -> trait -> weight
    pc,             \* position in main, or the exception that ended it
    ti, gi, hi,     \* positions of the three loops in their powerset lists
    have_trait, one_gene, two_genes,   \* the loop variables
    p,              \* the joint probability of the current world
    calls,          \* history: the worlds handed to update so far
    ncalls,         \* history: the number of calls of update so far
    total,          \* history: the sum of the joint probabilities handed to update
    todo            \* the worlds still to fold, when folded in arbitrary order

vars == <<people, probabilities, pc, ti, gi, hi, have_trait, one_gene, two_genes,
          p, calls, ncalls, total, todo>>

names == DOMAIN people

World(o, t, h) == [one_gene |-> o, two_genes |-> t, have_trait |-> h]

\* probabilities as main builds it before the loops
ZeroProbabilities(ppl) ==
    [person \in DOMAIN ppl |->
        [gene  |-> [g \in 0..2 |-> RatZero],
         trait |-> [t \in BOOLEAN |-> RatZero]]]

\* the state main is in when it enters the loop over have_trait
Start(ppl) ==
    /\ people = ppl
    /\ probabilities = ZeroProbabilities(ppl)
    /\ pc = "have_trait"
    /\ ti = 1 /\ gi = 1 /\ hi = 1
    /\ have_trait = {} /\ one_gene = {} /\ two_genes = {}
    /\ p = BigZero
    /\ calls = {} /\ ncalls = 0 /\ total = BigZero
    /\ todo = {}

Init == \E k \in 0..MaxPeople : \E ppl \in Pedigrees(k) : Start(ppl)

\* == for != in the comparison with the observation
fails_evidence_inverted(ppl, h) ==
    \E person \in DOMAIN ppl :
        /\ ppl[person].trait # "None"
        /\ (ppl[person].trait = "True") = (person \in h)

\* the have_trait set violates known information
fails_evidence(ppl, h) ==
    \E person \in DOMAIN ppl :
        /\ ppl[person].trait # "None"
        /\ (ppl[person].trait = "True") # (person \in h)

\* for have_trait in powerset(names): exhausted
TraitsExhausted ==
    /\ pc = "have_trait"
    /\ ti > Len(powerset(names))
    /\ pc' = "normalize"
    /\ UNCHANGED <<people, probabilities, ti, gi, hi, have_trait, one_gene,
                   two_genes, p, calls, ncalls, total, todo>>

\* if fails_evidence: continue
TraitSkipped ==
    /\ pc = "have_trait"
    /\ ti <= Len(powerset(names))
    /\ fails_evidence(people, powerset(names)[ti])
    /\ have_trait' = powerset(names)[ti]
    /\ ti' = ti + 1
    /\ UNCHANGED <<people, probabilities, pc, gi, hi, one_gene, two_genes, p,
                   calls, ncalls, total, todo>>

\* the two inner loops start on their first elements
TraitKept ==
    /\ pc = "have_trait"
    /\ ti <= Len(powerset(names))
    /\ ~ fails_evidence(people, powerset(names)[ti])
    /\ have_trait' = powerset(names)[ti]
    /\ gi' = 1
    /\ hi' = 1
    /\ one_gene' = powerset(names)[1]
    /\ two_genes' = powerset(names \ one_gene')[1]
    /\ pc' = "score"
    /\ UNCHANGED <<people, probabilities, ti, p, calls, ncalls, total, todo>>

\* p = joint_probability(people, one_gene, two_genes, have_trait)
Score ==
    /\ pc = "score"
    /\ IF RaisesKeyError(people)
       THEN pc' = "KeyError" /\ UNCHANGED p
       ELSE /\ p' = joint_probability(people, one_gene, two_genes, have_trait)
            /\ pc' = "update"
    /\ UNCHANGED <<people, probabilities, ti, gi, hi, have_trait, one_gene,
                   two_genes, calls, ncalls, total, todo>>

\* update(probabilities, one_gene, two_genes, have_trait, p), then the
\* loops move to the next world
Update ==
    /\ pc = "update"
    /\ probabilities' = update(probabilities, one_gene, two_genes, have_trait, p)
    /\ calls' = calls \cup {World(one_gene, two_genes, have_trait)}
    /\ ncalls' = ncalls + 1
    /\ total' = BigAdd(total, p)
    /\ LET inner == powerset(names \ one_gene)
           outer == powerset(names)
       IN  IF hi < Len(inner)
           THEN /\ hi' = hi + 1
                /\ two_genes' = inner[hi + 1]
                /\ pc' = "score"
                /\ UNCHANGED <<ti, gi, one_gene>>
           ELSE IF gi < Len(outer)
           THEN /\ gi' = gi + 1
                /\ hi' = 1
                /\ one_gene' = outer[gi + 1]
                /\ two_genes' = powerset(names \ outer[gi + 1])[1]
                /\ pc' = "score"
                /\ UNCHANGED ti
           ELSE /\ ti' = ti + 1
                /\ pc' = "have_trait"
                /\ UNCHANGED <<gi, hi, one_gene, two_genes>>
    /\ UNCHANGED <<people, have_trait, p, todo>>

\* normalize(probabilities)
Normalize ==
    /\ pc = "normalize"
    /\ probabilities' = normalize(probabilities)
    /\ pc' = IF normalize_raises(probabilities) THEN "ZeroDivisionError" ELSE "done"
    /\ UNCHANGED <<people, ti, gi, hi, have_trait, one_gene, two_genes, p,
                   calls, ncalls, total, todo>>

Next ==
    \/ TraitsExhausted
    \/ TraitSkipped
    \/ TraitKept
    \/ Score
    \/ Update
    \/ Normalize

Spec == Init /\ [][Next]_vars

(***************************************************************************)
(* Definitions the properties are stated with.                             *)
(***************************************************************************)
Known(ppl) == { person \in DOMAIN ppl : ppl[person].trait # "None" }
Unknown(ppl) == { person \in DOMAIN ppl : ppl[person].trait = "None" }

\* the world agrees with every known trait observation
AgreesWithEvidence(ppl, h) ==
    \A person \in Known(ppl) : (person \in h) <=> (ppl[person].trait = "True")

\* the triples of the enumeration contract
ValidWorlds(ppl) ==
    { World(o, t, h) :
        o \in SUBSET DOMAIN ppl, t \in SUBSET DOMAIN ppl,
        h \in { x \in SUBSET DOMAIN ppl : AgreesWithEvidence(ppl, x) } }
    \ { w \in [one_gene : SUBSET DOMAIN ppl, two_genes : SUBSET DOMAIN ppl,
               have_trait : SUBSET DOMAIN ppl] : w.one_gene \cap w.two_genes # {} }

CurrentWorld == World(one_gene, two_genes, have_trait)

BeforeNormalize == pc \in {"have_trait", "score", "update", "normalize"}

\* C1: the loop hands to joint_probability and update exactly the triples
\* (one_gene, two_genes, have_trait) with one_gene and two_genes disjoint
\* subsets of the persons and have_trait agreeing with every known trait,
\* each once: 2^(unknown traits) * 3^(persons) worlds, none twice, none skipped.
C1_EnumerationExact ==
    /\ ncalls = Cardinality(calls)
    /\ pc = "update" =>
          /\ one_gene \subseteq names /\ two_genes \subseteq names
          /\ have_trait \subseteq names
          /\ one_gene \cap two_genes = {}
          /\ AgreesWithEvidence(people, have_trait)
          /\ CurrentWorld \notin calls
    /\ pc \in {"normalize", "done"} =>
          /\ calls = ValidWorlds(people)
          /\ ncalls = (2 ^ Cardinality(Unknown(people))) * (3 ^ Cardinality(names))

C1_Witness ==
    /\ pc = "done"
    /\ Cardinality(names) >= 3
    /\ Known(people) # {} /\ Cardinality(Unknown(people)) >= 2
    /\ ncalls = 108

\* C2: before normalize, the trait weight opposite to a known observation is
\* exactly 0, and every world scored or folded matches every observation.
C2_EvidenceConsistency ==
    /\ BeforeNormalize =>
          \A person \in Known(people) :
              probabilities[person].trait[people[person].trait # "True"].num = BigZero
    /\ pc \in {"score", "update"} =>
          \A person \in Known(people) :
              (person \in have_trait) = (people[person].trait = "True")

C2_Witness ==
    /\ pc = "normalize"
    /\ \E person \in names : people[person].trait = "True"
    /\ \E person \in names : people[person].trait = "False"
    /\ \E person \in names : people[person].trait = "None"
    /\ ncalls > 0

\* C10: after any number of update calls, every person's gene weights and
\* trait weights both sum to the sum of the joint probabilities folded so far.
\* the sum of the joint probabilities of the worlds ws, taken by have_trait,
\* then by one_gene, then by two_genes
RECURSIVE SumWorlds(_, _)
SumWorlds(ppl, ws) ==
    IF ws = {} THEN BigZero
    ELSE LET w == CHOOSE x \in ws : TRUE
         IN  BigAdd(joint_probability(ppl, w.one_gene, w.two_genes, w.have_trait),
                    SumWorlds(ppl, ws \ {w}))

RECURSIVE SumByOneGene(_, _, _)
SumByOneGene(ppl, ws, os) ==
    IF os = {} THEN BigZero
    ELSE LET o == CHOOSE x \in os : TRUE
         IN  BigAdd(SumWorlds(ppl, { w \in ws : w.one_gene = o }),
                    SumByOneGene(ppl, ws, os \ {o}))

RECURSIVE SumByTrait(_, _, _)
SumByTrait(ppl, ws, hs) ==
    IF hs = {} THEN BigZero
    ELSE LET h == CHOOSE x \in hs : TRUE
             wh == { w \in ws : w.have_trait = h }
         IN  BigAdd(SumByOneGene(ppl, wh, { w.one_gene : w \in wh }),
                    SumByTrait(ppl, ws, hs \ {h}))

SumOfJoint(ppl, ws) == SumByTrait(ppl, ws, { w.have_trait : w \in ws })

C10_EqualTotals ==
    /\ BeforeNormalize =>
          \A person \in names :
              /\ gene_total(probabilities[person]) = Rat(total)
              /\ trait_total(probabilities[person]) = Rat(total)
    /\ pc = "normalize" => total = SumOfJoint(people, calls)

C10_Witness ==
    /\ pc = "score"
    /\ ncalls >= 5
    /\ Cardinality(names) >= 2
    /\ \E person \in names : people[person].father # None

\* the contract of the joint probability, in the units of joint_probability
Copies(w, person) ==
    IF person \in w.two_genes THEN 2 ELSE IF person \in w.one_gene THEN 1 ELSE 0

\* the probability that a parent with the given copies transmits the gene
Transmit(copies) ==
    CASE copies = 2 -> Hundred - PROBS.mutation
      [] copies = 1 -> Hundred \div 2
      [] copies = 0 -> PROBS.mutation

ChildGene(g, pf, pm) ==
    CASE g = 0 -> (Hundred - pf) * (Hundred - pm)
      [] g = 1 -> pf * (Hundred - pm) + (Hundred - pf) * pm
      [] g = 2 -> pf * pm

PersonFactor(ppl, w, person) ==
    LET g == Copies(w, person)
        t == person \in w.have_trait
    IN  IF ppl[person].father = None /\ ppl[person].mother = None
        THEN PROBS.gene[g] * PROBS.trait[g][t]
        ELSE ChildGene(g, Transmit(Copies(w, ppl[person].father)),
                          Transmit(Copies(w, ppl[person].mother)))
                 * PROBS.trait[g][t]

RECURSIVE ProductOfFactors(_, _, _)
ProductOfFactors(ppl, w, persons) ==
    IF persons = {} THEN BigOne
    ELSE LET person == CHOOSE x \in persons : TRUE
         IN  BigMulSmall(ProductOfFactors(ppl, w, persons \ {person}),
                         PersonFactor(ppl, w, person))

C5_UpdateBuckets ==
    [][pc = "update" =>
          \A person \in names :
              /\ \A g \in 0..2 :
                    probabilities'[person].gene[g] =
                        IF g = Copies(CurrentWorld, person)
                        THEN RatAdd(probabilities[person].gene[g], Rat(p))
                        ELSE probabilities[person].gene[g]
              /\ \A t \in BOOLEAN :
                    probabilities'[person].trait[t] =
                        IF t = (person \in have_trait)
                        THEN RatAdd(probabilities[person].trait[t], Rat(p))
                        ELSE probabilities[person].trait[t]]_vars

C5_Witness ==
    /\ pc \in {"score", "have_trait"}
    /\ \E person \in names :
          /\ probabilities[person].gene[1].num # BigZero
          /\ probabilities[person].gene[2].num # BigZero
          /\ probabilities[person].trait[TRUE].num # BigZero
          /\ probabilities[person].trait[FALSE].num # BigZero

\* C3: for a well-formed pedigree normalize ends the pipeline with every
\* person's three gene weights summing to 1 and two trait weights summing to
\* 1, in the proportions they had before.
RatOne == Rat(BigOne)

C3_Normalized ==
    [][(pc = "normalize" /\ WellFormed(people)) =>
          /\ pc' = "done"
          /\ \A person \in names :
                LET old == probabilities[person]
                    new == probabilities'[person]
                IN  /\ RatEq(RatAdd(RatAdd(new.gene[0], new.gene[1]), new.gene[2]),
                             RatOne)
                    /\ RatEq(RatAdd(new.trait[TRUE], new.trait[FALSE]), RatOne)
                    /\ \A g, h \in 0..2 :
                          RatProdEq(new.gene[g], old.gene[h], new.gene[h], old.gene[g])
                    /\ RatProdEq(new.trait[TRUE], old.trait[FALSE],
                                 new.trait[FALSE], old.trait[TRUE])]_vars

C3_Witness ==
    /\ pc = "done"
    /\ \E person \in names :
          /\ people[person].father # None
          /\ people[person].trait = "None"
          /\ probabilities[person].gene[2].num # BigZero
          /\ probabilities[person].gene[2].den # BigOne
    /\ \E person \in names : people[person].trait = "True"

(***************************************************************************)
(* main on an input mapping that was not validated.                        *)
(***************************************************************************)
InitRaw == \E k \in 1..MaxRawPeople : \E ppl \in RawMappings(k) : Start(ppl)

SpecRaw == InitRaw /\ [][Next]_vars

\* a person with one parent reference only, or a reference to no person
Malformed(ppl) ==
    \E person \in DOMAIN ppl :
        \/ (ppl[person].mother = None) # (ppl[person].father = None)
        \/ ppl[person].mother # None /\ ppl[person].mother \notin DOMAIN ppl
        \/ ppl[person].father # None /\ ppl[person].father \notin DOMAIN ppl

\* C7: on a mapping with a single-parent person or a reference to a missing
\* person the computation fails before any world is scored and never
\* produces a distribution.
C7_MalformedRejected ==
    Malformed(people) =>
        /\ pc \notin {"update", "normalize", "done"}
        /\ ncalls = 0

(***************************************************************************)
(* The worlds of a pedigree folded by joint_probability and update in an   *)
(* arbitrary order, then normalized.                                       *)
(***************************************************************************)
\* the valid worlds in which both parents of the child carry no copy
ParentsFixedWorlds(ppl, child) ==
    { w \in ValidWorlds(ppl) :
        /\ Copies(w, ppl[child].father) = 0
        /\ Copies(w, ppl[child].mother) = 0 }

FoldChoices(ppl) ==
    IF (2 ^ Cardinality(Unknown(ppl))) * (3 ^ Cardinality(DOMAIN ppl)) <= MaxWorlds
    THEN { ValidWorlds(ppl) }
    ELSE { ws \in { ParentsFixedWorlds(ppl, child) :
                      child \in { c \in DOMAIN ppl : ppl[c].father # None } } :
             Cardinality(ws) <= MaxWorlds }

InitAnyOrder ==
    \E k \in 0..MaxPeople : \E ppl \in Pedigrees(k) : \E ws \in FoldChoices(ppl) :
        /\ people = ppl
        /\ probabilities = ZeroProbabilities(ppl)
        /\ pc = "fold"
        /\ ti = 1 /\ gi = 1 /\ hi = 1
        /\ have_trait = {} /\ one_gene = {} /\ two_genes = {}
        /\ p = BigZero
        /\ calls = {} /\ ncalls = 0 /\ total = BigZero
        /\ todo = ws

\* lines 81-82 on any world not folded yet
FoldAny ==
    /\ pc = "fold"
    /\ \E w \in todo :
          /\ one_gene' = w.one_gene
          /\ two_genes' = w.two_genes
          /\ have_trait' = w.have_trait
          /\ p' = joint_probability(people, w.one_gene, w.two_genes, w.have_trait)
          /\ probabilities' = update(probabilities, w.one_gene, w.two_genes,
                                     w.have_trait, p')
          /\ calls' = calls \cup {w}
          /\ total' = BigAdd(total, p')
          /\ todo' = todo \ {w}
    /\ ncalls' = ncalls + 1
    /\ UNCHANGED <<people, pc, ti, gi, hi>>

FoldEnd ==
    /\ pc = "fold"
    /\ todo = {}
    /\ pc' = "normalize"
    /\ UNCHANGED <<people, probabilities, ti, gi, hi, have_trait, one_gene,
                   two_genes, p, calls, ncalls, total, todo>>

NextAnyOrder == FoldAny \/ FoldEnd \/ Normalize

SpecAnyOrder == InitAnyOrder /\ [][NextAnyOrder]_vars

\* the worlds ws folded from all-zero weights in one fixed order
RECURSIVE FoldInOrder(_, _)
FoldInOrder(ppl, ws) ==
    IF ws = {} THEN ZeroProbabilities(ppl)
    ELSE LET w == CHOOSE x \in ws : TRUE
         IN  update(FoldInOrder(ppl, ws \ {w}), w.one_gene, w.two_genes, w.have_trait,
                    joint_probability(ppl, w.one_gene, w.two_genes, w.have_trait))

\* C8: the weights after folding a set of worlds do not depend on the order
\* of the fold: in whatever order the worlds were folded, the weights are
\* those of the fixed order, and so are the normalized distributions.
C8_OrderIndependent ==
    /\ pc \in {"fold", "normalize"} => probabilities = FoldInOrder(people, calls)
    /\ pc = "done" => probabilities = normalize(FoldInOrder(people, calls))

C8_Witness ==
    /\ pc = "done"
    /\ ncalls >= 6
    /\ Cardinality(names) >= 2

\* C9: a child with unobserved trait whose founder parents carry no copy in
\* every folded world gets the gene distribution 0.9801, 0.0198, 0.0001.
TransmissionScenario(child) ==
    /\ people[child].father # None
    /\ people[child].trait = "None"
    /\ people[people[child].father].father = None
    /\ people[people[child].mother].father = None
    /\ calls = ParentsFixedWorlds(people, child)

Fraction(n, d) == [num |-> ToBig(n), den |-> ToBig(d)]

C9_DeterministicTransmission ==
    pc = "done" =>
        \A child \in names :
            TransmissionScenario(child) =>
                /\ RatEq(probabilities[child].gene[0], Fraction(9801, 10000))
                /\ RatEq(probabilities[child].gene[1], Fraction(198, 10000))
                /\ RatEq(probabilities[child].gene[2], Fraction(1, 10000))

C9_Witness ==
    /\ pc = "done"
    /\ \E child \in names : TransmissionScenario(child)

(***************************************************************************)
(* normalize on arbitrary accumulated weights.                             *)
(***************************************************************************)
Weights == [gene : [0..2 -> {RatZero, RatOne}], trait : [BOOLEAN -> {RatZero, RatOne}]]

InitNormalize ==
    \E k \in 1..MaxNormalizePeople : \E probs \in [1..k -> Weights] :
        /\ people = [person \in 1..k |->
                        [mother |-> None, father |-> None, trait |-> "None"]]
        /\ probabilities = probs
        /\ pc = "normalize"
        /\ ti = 1 /\ gi = 1 /\ hi = 1
        /\ have_trait = {} /\ one_gene = {} /\ two_genes = {}
        /\ p = BigZero
        /\ calls = {} /\ ncalls = 0 /\ total = BigZero
        /\ todo = {}

NextNormalize == Normalize

SpecNormalize == InitNormalize /\ [][NextNormalize]_vars

ZeroTotal(w) ==
    \/ RatAdd(RatAdd(w.gene[0], w.gene[1]), w.gene[2]).num = BigZero
    \/ RatAdd(w.trait[TRUE], w.trait[FALSE]).num = BigZero

\* C6: normalize fails with an error that reaches the caller whenever some
\* person's gene weights or trait weights sum to zero, and returns no
\* distribution then.
C6_ZeroTotalFails ==
    [][(pc = "normalize" /\ \E person \in names : ZeroTotal(probabilities[person])) =>
          /\ pc' = "ZeroDivisionError"
          /\ pc' # "done"]_vars

C6_Witness ==
    /\ pc = "ZeroDivisionError"
    /\ \E person \in names :
          /\ probabilities[person].gene[0].num # BigZero
          /\ probabilities[person].trait[TRUE].num = BigZero
          /\ probabilities[person].trait[FALSE].num = BigZero

====
